---- MODULE Spec2Model ----
(***************************************************************************)
(* A model of the archiwiki retrieval engine:                              *)
(*   - RAGSystem (src/src/rag/index.ts): indexRepository, search and the   *)
(*     on-disk cache (index.faiss + metadata.json);                        *)
(*   - ArchitecturalWikiAgent (src/unnamed/part_003): generateWiki and     *)
(*     the search_codebase tool, the two callers of RAGSystem;             *)
(*   - ASTChunker (src/src/ast-chunker.ts): chunkFile and mergeSmallChunks.*)
(*                                                                         *)
(* Texts are sequences of words, a word is a sequence of character codes.  *)
(* A vector of embeddingDimension components is kept sparse: a function    *)
(* from the non-zero component indexes to their (integer) counts.          *)
(***************************************************************************)
EXTENDS Integers, Sequences, FiniteSets, TLC

NULL == "null"

\* options.maxResults when the caller gives none
Unset == -1

\* ------------------------------------------------------------------------
\* Bounds of the model
\* ------------------------------------------------------------------------
\* indexRepository calls in one behaviour
MaxCalls == 3
\* top-level nodes of a source file given to ASTChunker.chunkFile
MaxNodes == 3
\* ASTChunkerConfig.minChunkSize and maxChunkSize, scaled down
MinChunkSize == 2
MaxChunkSize == 6
\* Chunks per embedding batch (batchSize, 20 in the code)
BatchSize == 2

\* ------------------------------------------------------------------------
\* Program constants
\* ------------------------------------------------------------------------
\* RAGSystem.chunkFile: the lines looked ahead for a boundary, the characters
\* a chunk must exceed, and the characters of overlap that make one line.
LookAheadLines == 10
TinyChunkLength == 50
OverlapUnit == 50

embeddingDimension == 1024
DefaultMaxResults == 10

\* ------------------------------------------------------------------------
\* Sequence helpers
\* ------------------------------------------------------------------------
RECURSIVE SumSeq(_)
SumSeq(s) == IF s = <<>> THEN 0 ELSE Head(s) + SumSeq(Tail(s))

Max2(a, b) == IF a >= b THEN a ELSE b
Min2(a, b) == IF a <= b THEN a ELSE b

\* Array.prototype.slice(0, n) for n >= 0
Take(s, n) == SubSeq(s, 1, Min2(n, Len(s)))

\* ------------------------------------------------------------------------
\* Words, repositories and the chunks their files produce
\* ------------------------------------------------------------------------
W_auth == <<97, 117, 116, 104>>
W_flow == <<102, 108, 111, 119>>
W_pay  == <<112, 97, 121>>
W_id   == <<105, 100>>

Words == {W_auth, W_flow, W_pay, W_id}

Repos  == {"R1", "R2"}
Stores == {"S1"}

\* A repository-relative path: directory, stem, infix and extension, as in
\* "tests/auth.test.ts" = [dir |-> "tests", stem |-> "auth", infix |-> "test", ext |-> ".ts"].
Path(d, s, i, e) == [dir |-> d, stem |-> s, infix |-> i, ext |-> e]

\* CodeChunk (src/src/rag/index.ts:29-36); the line numbers are part of id.
Chunk(i, p, c, l) == [id |-> i, filePath |-> p, content |-> c, language |-> l]

ChunkA1 == Chunk("src/auth.ts:1-9", Path("src", "auth", "", ".ts"), <<W_auth, W_flow, W_auth>>, "typescript")
ChunkA2 == Chunk("tests/auth.test.ts:1-5", Path("tests", "auth", "test", ".ts"), <<W_auth, W_id>>, "typescript")
ChunkB1 == Chunk("lib/pay.py:1-7", Path("lib", "pay", "", ".py"), <<W_pay, W_flow>>, "python")

ChunkA3 == Chunk("src/auth.ts:8-20", Path("src", "auth", "", ".ts"), <<W_flow, W_id>>, "typescript")
ChunkB2 == Chunk("web/pay.ts:1-4", Path("web", "pay", "", ".ts"), <<W_pay>>, "typescript")

\* A file of a repository: its path, whether it can be read, and the chunks
\* RAGSystem.chunkFile cuts it into.
SrcFile(p, readable, cs) == [filePath |-> p, readable |-> readable, chunks |-> cs]

FileA1 == SrcFile(ChunkA1.filePath, TRUE, <<ChunkA1>>)
FileA2 == SrcFile(ChunkA2.filePath, TRUE, <<ChunkA2>>)
FileB1 == SrcFile(ChunkB1.filePath, TRUE, <<ChunkB1>>)
FileB2 == SrcFile(ChunkB2.filePath, TRUE, <<ChunkB2>>)

\* The files of each repository as they change over time, in the order in
\* which glob walks them.
RepoContents(r) ==
  IF r = "R1" THEN {<<>>, <<FileA1>>, <<FileA1, FileA2>>}
  ELSE {<<FileB1>>}

\* More repositories: a file of two chunks, a file that cannot be read, files
\* that glob yields in another order, files of two extensions.
WideContents(r) ==
  IF r = "R1"
  THEN {<<FileA1, FileA2>>, <<FileA2, FileA1>>,
        <<SrcFile(ChunkA1.filePath, TRUE, <<ChunkA1, ChunkA3>>), FileA2>>,
        <<SrcFile(ChunkA1.filePath, FALSE, <<ChunkA1>>), FileA2>>}
  ELSE {<<FileB1>>, <<FileB1, FileB2>>}

\* The most chunks a repository yields.
MaxChunks == 3

\* The repository a chunk, or its stored metadata, was cut from.
RepoOf(c) == IF c.id \in {ChunkA1.id, ChunkA2.id, ChunkA3.id} THEN "R1" ELSE "R2"

INDEXABLE_EXTENSIONS ==
  <<".ts", ".tsx", ".js", ".jsx", ".mjs", ".cjs", ".py", ".pyx", ".go", ".rs", ".java",
    ".kt", ".scala", ".rb", ".php", ".c", ".cpp", ".h", ".hpp", ".cs", ".swift", ".vue",
    ".svelte", ".json", ".yaml", ".yml", ".toml", ".md", ".mdx">>

\* glob("**/*" + ext): the files of that extension, in the order of the walk.
RECURSIVE Glob(_, _)
Glob(files, ext) ==
  IF files = <<>> THEN <<>>
  ELSE (IF Head(files).filePath.ext = ext THEN <<Head(files)>> ELSE <<>>)
       \o Glob(Tail(files), ext)

\* discoverFiles: the matches of each extension in the order of
\* INDEXABLE_EXTENSIONS, from extension i on. (No file matches two patterns,
\* so the Set of line 256 removes nothing.)
RECURSIVE discoverFiles(_, _)
discoverFiles(files, i) ==
  IF i > Len(INDEXABLE_EXTENSIONS) THEN <<>>
  ELSE Glob(files, INDEXABLE_EXTENSIONS[i]) \o discoverFiles(files, i + 1)

\* The loop of lines 146-167: the chunks of each file in turn; a file whose
\* chunkFile throws (it cannot be read) is skipped.
RECURSIVE ChunkAll(_)
ChunkAll(files) ==
  IF files = <<>> THEN <<>>
  ELSE (IF Head(files).readable THEN Head(files).chunks ELSE <<>>) \o ChunkAll(Tail(files))

\* ------------------------------------------------------------------------
\* Embeddings (RAGSystem.generateSimpleEmbeddings, simpleHash, normalizeVector)
\* ------------------------------------------------------------------------
\* One round of simpleHash's loop on the 32-bit hash kept as two 16-bit halves
\* h = <<hi, lo>>: ((hash << 5) - hash) + char, then hash & hash (ToInt32).
HashStep(h, char) ==
  LET t == 31 * h[2] + char
  IN  <<(31 * h[1] + (t \div 65536)) % 65536, t % 65536>>

RECURSIVE HashLoop(_, _)
HashLoop(h, str) ==
  IF str = <<>> THEN h ELSE HashLoop(HashStep(h, Head(str)), Tail(str))

\* Math.abs of the int32 whose halves are h (hi >= 32768 is a negative value).
simpleHash(str) ==
  LET h == HashLoop(<<0, 0>>, str)
  IN  IF h[1] >= 32768 THEN (65535 - h[1]) * 65536 + (65536 - h[2])
      ELSE h[1] * 65536 + h[2]

RECURSIVE CountIn(_, _)
CountIn(x, s) ==
  IF s = <<>> THEN 0
  ELSE (IF Head(s) = x THEN 1 ELSE 0) + CountIn(x, Tail(s))

RECURSIVE LongWords(_)
LongWords(text) ==
  IF text = <<>> THEN <<>>
  ELSE IF Len(Head(text)) > 2 THEN <<Head(text)>> \o LongWords(Tail(text))
       ELSE LongWords(Tail(text))

\* A vector is [num, den2]: the components num[i] (0 where i is not in the
\* domain), each divided by the square root of den2.
SumSquares(num) ==
  LET RECURSIVE Go(_)
      Go(S) == IF S = {} THEN 0
               ELSE LET i == CHOOSE j \in S : TRUE
                    IN  num[i] * num[i] + Go(S \ {i})
  IN  Go(DOMAIN num)

normalizeVector(vector) ==
  LET n2 == SumSquares(vector.num)
  IN  IF n2 = 0 THEN vector ELSE [num |-> vector.num, den2 |-> n2]

\* The term-frequency vector of one text, normalized.
SimpleEmbedding(text) ==
  LET words == LongWords(text)
      hashes == [i \in 1..Len(words) |-> simpleHash(words[i]) % embeddingDimension]
      used == {hashes[i] : i \in 1..Len(words)}
  IN  normalizeVector([num |-> [b \in used |-> CountIn(b, hashes)], den2 |-> 1])

generateSimpleEmbeddings(chunks) ==
  [i \in 1..Len(chunks) |-> SimpleEmbedding(chunks[i].content)]

\* new Array(this.embeddingDimension).fill(0)
ZeroVector == [num |-> <<>>, den2 |-> 1]

\* One zero vector for a failed batch, whatever its length.
OneZeroVector(n) == <<ZeroVector>>

\* The zero vectors pushed for a failed batch of n chunks (lines 349-351).
ZeroVectors(n) == [j \in 1..n |-> ZeroVector]

\* The loop of generateEmbeddings from chunk i (0-based) on: batches of
\* batchSize, each embedded by generateSimpleEmbeddings and appended in order;
\* for a batch whose embedding throws, zero vectors. fails is the set of the
\* batches (numbered from 0) whose embedding throws.
RECURSIVE EmbedBatches(_, _, _, _)
EmbedBatches(chunks, i, fails, embeddings) ==
  IF i >= Len(chunks) THEN embeddings
  ELSE LET batch == SubSeq(chunks, i + 1, Min2(i + BatchSize, Len(chunks)))
       IN  EmbedBatches(chunks, i + BatchSize, fails,
                        embeddings \o (IF (i \div BatchSize) \in fails
                                       THEN ZeroVectors(Len(batch))
                                       ELSE generateSimpleEmbeddings(batch)))

generateEmbeddings(chunks, fails) == EmbedBatches(chunks, 0, fails, <<>>)

\* Inner product of two vectors, as the pair [dot, den2] standing for
\* dot / sqrt(den2).
InnerProduct(a, b) ==
  LET common == DOMAIN a.num \cap DOMAIN b.num
      RECURSIVE Go(_)
      Go(S) == IF S = {} THEN 0
               ELSE LET i == CHOOSE j \in S : TRUE
                    IN  a.num[i] * b.num[i] + Go(S \ {i})
  IN  [dot |-> Go(common), den2 |-> a.den2 * b.den2]

\* s is a strictly greater score than t (dot products of counts are >= 0).
ScoreGreater(s, t) == s.dot * s.dot * t.den2 > t.dot * t.dot * s.den2

\* ------------------------------------------------------------------------
\* Search (RAGSystem.search)
\* ------------------------------------------------------------------------
isTestFile(filePath) ==
  \/ filePath.infix \in {"test", "spec", "stories"}
  \/ filePath.dir \in {"tests", "__tests__", "__mocks__"}

\* The two filters of search: TRUE when the entry is skipped.
Filtered(meta, options) ==
  \/ options.excludeTests /\ isTestFile(meta.filePath)
  \/ options.fileTypes.given /\ ~(\E ext \in options.fileTypes.exts : meta.filePath.ext = ext)

\* IndexFlatIP.search(query, k) on an index that holds at least k vectors: the
\* labels of the k greatest inner products, greatest first, the lower label
\* first among equal scores.
RECURSIVE RankLabels(_, _, _)
RankLabels(vecs, q, left) ==
  IF left = {} THEN <<>>
  ELSE LET best == CHOOSE i \in left : \A j \in left \ {i} :
                      \/ ScoreGreater(InnerProduct(vecs[i + 1], q), InnerProduct(vecs[j + 1], q))
                      \/ /\ ~ScoreGreater(InnerProduct(vecs[j + 1], q), InnerProduct(vecs[i + 1], q))
                         /\ i < j
       IN  <<best>> \o RankLabels(vecs, q, left \ {best})

\* faiss-node is not part of the repository. Asked for more neighbours than the
\* index holds, a build of the library either raises or pads the labels with
\* -1; padsK is which one the installed build does.
FaissSearch(vecs, q, k, padsK) ==
  LET ranked == RankLabels(vecs, q, 0..(Len(vecs) - 1))
  IN  IF k <= Len(vecs) THEN [threw |-> FALSE, labels |-> Take(ranked, k)]
      ELSE IF padsK
           THEN [threw |-> FALSE, labels |-> ranked \o [i \in 1..(k - Len(vecs)) |-> -1]]
           ELSE [threw |-> TRUE, labels |-> <<>>]

Result(meta, score) == [chunk |-> meta, score |-> score]

\* The loop over labels[0] of the FAISS branch (lines 431-448), from position
\* i on, with the results pushed so far.
RECURSIVE VectorResults(_, _, _, _, _, _, _, _)
VectorResults(labels, i, vecs, q, metadata, options, maxResults, results) ==
  IF i > Len(labels) THEN results
  ELSE LET label == labels[i]
           skip == VectorResults(labels, i + 1, vecs, q, metadata, options, maxResults, results)
       IN  IF label = -1 THEN skip
           ELSE IF label \notin DOMAIN metadata THEN skip
           ELSE IF Filtered(metadata[label], options) THEN skip
           ELSE LET pushed == Append(results,
                                     Result(metadata[label], InnerProduct(vecs[label + 1], q)))
                IN  IF Len(pushed) >= maxResults THEN pushed
                    ELSE VectorResults(labels, i + 1, vecs, q, metadata, options,
                                       maxResults, pushed)

\* Keyword score of one chunk: the matches of every query term, summed. A text
\* is a sequence of words and a term matches the words equal to it.
RECURSIVE KeywordScore(_, _)
KeywordScore(content, queryTerms) ==
  IF queryTerms = <<>> THEN 0
  ELSE CountIn(Head(queryTerms), content) + KeywordScore(content, Tail(queryTerms))

\* The entries of the metadata Map in iteration order (ascending key: the keys
\* are inserted 0, 1, 2, ... by a build, and come back in that order from
\* Object.entries on a load).
RECURSIVE MapValues(_, _)
MapValues(metadata, keys) ==
  IF keys = {} THEN <<>>
  ELSE LET k == CHOOSE x \in keys : \A y \in keys : x <= y
       IN  <<metadata[k]>> \o MapValues(metadata, keys \ {k})

RECURSIVE Scored(_, _, _)
Scored(metas, queryTerms, options) ==
  IF metas = <<>> THEN <<>>
  ELSE LET meta == Head(metas)
           score == KeywordScore(meta.content, queryTerms)
           rest == Scored(Tail(metas), queryTerms, options)
       IN  IF Filtered(meta, options) THEN rest
           ELSE IF score > 0 THEN <<Result(meta, score)>> \o rest
           ELSE rest

\* scored.sort((a, b) => b.score - a.score): stable, descending.
RECURSIVE InsertByScore(_, _)
InsertByScore(x, s) ==
  IF s = <<>> THEN <<x>>
  ELSE IF x.score > Head(s).score THEN <<x>> \o s
       ELSE <<Head(s)>> \o InsertByScore(x, Tail(s))

RECURSIVE SortByScore(_)
SortByScore(s) ==
  IF s = <<>> THEN <<>>
  ELSE InsertByScore(s[Len(s)], SortByScore(SubSeq(s, 1, Len(s) - 1)))

\* options.maxResults || 10
EffectiveMaxResults(options) ==
  IF options.maxResults = Unset \/ options.maxResults = 0 THEN DefaultMaxResults
  ELSE options.maxResults

\* this.index = null. An IndexFlatIP is made for at least one vector (line
\* 181), so the empty sequence stands for no index.
NoIndex == <<>>

\* search(query, options) on an engine whose fields are index and metadata:
\* [threw, results].
search(index, metadata, faiss, padsK, query, options) ==
  LET maxResults == EffectiveMaxResults(options)
  IN  IF DOMAIN metadata = {} THEN [threw |-> FALSE, results |-> <<>>]
      ELSE IF index # NoIndex /\ faiss
      THEN LET q == normalizeVector(SimpleEmbedding(query))
               found == FaissSearch(index, q, maxResults * 2, padsK)
           IN  IF found.threw THEN [threw |-> TRUE, results |-> <<>>]
               ELSE [threw |-> FALSE,
                     results |-> VectorResults(found.labels, 1, index, q, metadata,
                                               options, maxResults, <<>>)]
      ELSE [threw |-> FALSE,
            results |-> Take(SortByScore(Scored(MapValues(metadata, DOMAIN metadata),
                                                query, options)),
                             maxResults)]

\* ------------------------------------------------------------------------
\* The persisted artifacts
\* ------------------------------------------------------------------------
\* A file of the store directory: absent, complete, or partial (what a write
\* that failed half way leaves). build is the indexRepository call that wrote
\* it, data what it holds.
Absent == [st |-> "absent", build |-> 0, data |-> <<>>]
FileOf(st, b, d) == [st |-> st, build |-> b, data |-> d]

\* StoredMetadata of a chunk (lines 189-196, 212-219).
StoredMetadata(c) == [id |-> c.id, filePath |-> c.filePath, content |-> c.content,
                      language |-> c.language]

\* The decimal digits of a key, as Object.fromEntries / JSON.stringify write a
\* numeric Map key, and parseInt on them.
RECURSIVE KeyString(_)
KeyString(n) == IF n < 10 THEN <<n>> ELSE KeyString(n \div 10) \o <<n % 10>>

RECURSIVE parseInt(_)
parseInt(str) ==
  IF Len(str) = 1 THEN str[1]
  ELSE 10 * parseInt(SubSeq(str, 1, Len(str) - 1)) + str[Len(str)]

\* JSON.stringify(Object.fromEntries(this.metadata)): the set of key/value
\* members of the written object.
StringifyMetadata(metadata) ==
  {<<KeyString(k), metadata[k]>> : k \in DOMAIN metadata}

\* ParseMetadata with every key shifted by one.
ParseMetadataShifted(json) ==
  [k \in {parseInt(m[1]) + 1 : m \in json} |->
     (CHOOSE m \in json : parseInt(m[1]) + 1 = k)[2]]

\* new Map(Object.entries(JSON.parse(text)).map(([k, v]) => [parseInt(k), v]))
ParseMetadata(json) ==
  [k \in {parseInt(m[1]) : m \in json} |->
     (CHOOSE m \in json : parseInt(m[1]) = k)[2]]

\* What faiss.read_index, or readFileSync with JSON.parse, can do on a file: a
\* partial file cannot be read; reading a complete one succeeds or raises an
\* I/O error (the try/catch of lines 125-134 is there for both).
ReadOutcomes(file) == IF file.st = "complete" THEN {TRUE, FALSE} ELSE {FALSE}

\* What a write can do: succeed, raise before anything is written, or
\* raise leaving a partial file.
WriteOutcomes == {"ok", "fail", "partial"}

Written(old, outcome, b, data) ==
  CASE outcome = "ok"      -> FileOf("complete", b, data)
    [] outcome = "partial" -> FileOf("partial", b, <<>>)
    [] OTHER               -> old

\* ------------------------------------------------------------------------
\* ASTChunker (src/src/ast-chunker.ts)
\* ------------------------------------------------------------------------
\* A source file is a sequence of top-level nodes, each on lines of its own:
\*   import    one line, an import declaration
\*   other     one line that is no declaration (an expression statement, ...)
\*   blank     one empty line
\*   decorator one line "@name"
\*   function  one line, a function with its body: "f() { ... }", "def f(): ..."
\*   class     a header line "class C {", one line per member (an indented
\*             one-line method), a closing line "}"
\* len is the number of characters of a one-line node, members the lengths of
\* the member lines of a class.
\* exported tells whether the declaration carries the export modifier and
\* decorator names the decorator of a class ("" for none), which stands on the
\* header line of the class.
Node(kind, len, members) ==
  [kind |-> kind, len |-> len, members |-> members, exported |-> FALSE, decorator |-> ""]

ClassNode(members, exported, decorator) ==
  [Node("class", 0, members) EXCEPT !.exported = exported, !.decorator = decorator]

NodeLines(n) == IF n.kind = "class" THEN Len(n.members) + 2 ELSE 1

\* The length of lines joined by "\n".
JoinedLength(lens) == SumSeq(lens) + (IF Len(lens) = 0 THEN 0 ELSE Len(lens) - 1)

\* The lines of a node: length, kind and indentation of each.
LineLengths(n) ==
  IF n.kind = "class"
  THEN <<[len |-> 1, kind |-> "class", indent |-> 0]>>
       \o [j \in 1..Len(n.members) |-> [len |-> n.members[j], kind |-> "method", indent |-> 1]]
       \o <<[len |-> 1, kind |-> "close", indent |-> 0]>>
  ELSE <<[len |-> n.len, kind |-> n.kind, indent |-> 0]>>

RECURSIVE RawLines(_)
RawLines(nodes) ==
  IF nodes = <<>> THEN <<>> ELSE LineLengths(Head(nodes)) \o RawLines(Tail(nodes))

\* A line of text. no tells the text of one line from that of another: the
\* lines of a file differ from one another, except that all empty lines are
\* the same text.
Line(no, len, kind, indent) == [no |-> no, len |-> len, kind |-> kind, indent |-> indent]

EmptyLine == Line(0, 0, "blank", 0)

\* content.split('\n')
FileLines(nodes) ==
  LET raw == RawLines(nodes)
  IN  [k \in 1..Len(raw) |->
         IF raw[k].kind = "blank" THEN EmptyLine
         ELSE Line(k, raw[k].len, raw[k].kind, raw[k].indent)]

\* The number of characters of a text given by its lines.
Length(content) == JoinedLength([k \in 1..Len(content) |-> content[k].len])

\* content.length of a file
ContentLength(nodes) == Length(FileLines(nodes))

\* lines.slice(from, to).join('\n'): the lines of 0-based index from..to-1.
Slice(lines, from, to) == SubSeq(lines, from + 1, Min2(to, Len(lines)))

\* The braces "{" and "}" on a line. A line of kind "classdecl" is a class
\* declaration whose opening brace stands on the next line, of kind "open".
Opens(line) == IF line.kind \in {"class", "function", "method", "open"} THEN 1 ELSE 0
Closes(line) == IF line.kind \in {"close", "function", "method"} THEN 1 ELSE 0

\* String.prototype.trim on a text whose first and last non-empty lines carry
\* no outer whitespace: the empty lines at both ends go.
RECURSIVE TrimStart(_)
TrimStart(content) ==
  IF content # <<>> /\ Head(content).len = 0 THEN TrimStart(Tail(content)) ELSE content

RECURSIVE TrimEnd(_)
TrimEnd(content) ==
  IF content # <<>> /\ content[Len(content)].len = 0
  THEN TrimEnd(SubSeq(content, 1, Len(content) - 1))
  ELSE content

Trim(content) == TrimEnd(TrimStart(content))

\* The 1-indexed line on which node i of the file starts.
RECURSIVE StartLineOf(_, _)
StartLineOf(nodes, i) ==
  IF i = 1 THEN 1 ELSE StartLineOf(nodes, i - 1) + NodeLines(nodes[i - 1])

\* ASTChunk: startLine and endLine (1-indexed), content as its lines, the
\* names of the constructs in it (name, joined by ", " in a merged chunk).
ASTChunk(type, names, parent, startLine, endLine, content, hints) ==
  [chunkType |-> type, names |-> names, parentName |-> parent,
   startLine |-> startLine, endLine |-> endLine, content |-> content,
   domainHints |-> hints, isPublicApi |-> FALSE]

\* DOMAIN_KEYWORDS, in the order of its entries: four of the categories, two
\* keywords of each; "error" is a keyword of two categories.
DOMAIN_KEYWORDS ==
  << [category |-> "authentication", keywords |-> <<"auth", "signin">>],
     [category |-> "error-handling", keywords |-> <<"error", "catch">>],
     [category |-> "logging", keywords |-> <<"log", "error">>],
     [category |-> "payment", keywords |-> <<"payment", "invoice">>] >>

\* The keywords of a category that searchText includes, in keyword order, from
\* keyword k on. A text is given by the set of keywords it includes.
RECURSIVE MatchedKeywords(_, _, _)
MatchedKeywords(keywords, k, searchText) ==
  IF k > Len(keywords) THEN <<>>
  ELSE (IF keywords[k] \in searchText THEN <<keywords[k]>> ELSE <<>>)
       \o MatchedKeywords(keywords, k + 1, searchText)

\* score: 3 for a matched keyword in the name, else 2 for one in the
\* documentation, else 1.
RECURSIVE KeywordScoreSum(_, _, _)
KeywordScoreSum(matched, name, documentation) ==
  IF matched = <<>> THEN 0
  ELSE (IF Head(matched) \in name THEN 3
        ELSE IF Head(matched) \in documentation THEN 2
        ELSE 1)
       + KeywordScoreSum(Tail(matched), name, documentation)

\* The hint of one category (lines 746-757), none when no keyword matched;
\* confidence in tenths; source is decided by the first matched keyword.
CategoryHint(entry, name, documentation, searchText) ==
  LET matchedKeywords == MatchedKeywords(entry.keywords, 1, searchText)
  IN  IF Len(matchedKeywords) = 0 THEN <<>>
      ELSE <<[category |-> entry.category,
              confidence |-> Min2(KeywordScoreSum(matchedKeywords, name, documentation), 10),
              source |-> IF matchedKeywords[1] \in name THEN "name"
                         ELSE IF matchedKeywords[1] \in documentation THEN "documentation"
                         ELSE "content",
              keywords |-> matchedKeywords]>>

RECURSIVE CategoryHints(_, _, _, _)
CategoryHints(c, name, documentation, searchText) ==
  IF c > Len(DOMAIN_KEYWORDS) THEN <<>>
  ELSE CategoryHint(DOMAIN_KEYWORDS[c], name, documentation, searchText)
       \o CategoryHints(c + 1, name, documentation, searchText)

\* hints.sort((a, b) => b.confidence - a.confidence), a stable sort.
RECURSIVE InsertByConfidence(_, _)
InsertByConfidence(x, sorted) ==
  IF sorted = <<>> THEN <<x>>
  ELSE IF Head(sorted).confidence >= x.confidence
       THEN <<Head(sorted)>> \o InsertByConfidence(x, Tail(sorted))
       ELSE <<x>> \o sorted

RECURSIVE SortByConfidence(_)
SortByConfidence(hints) ==
  IF hints = <<>> THEN <<>>
  ELSE InsertByConfidence(hints[Len(hints)],
                          SortByConfidence(SubSeq(hints, 1, Len(hints) - 1)))

\* inferDomainHints(name, documentation, decorators, content), each text given
\* by the set of keywords it includes.
inferDomainHints(name, documentation, decorators, content) ==
  Take(SortByConfidence(CategoryHints(1, name, documentation,
                                      name \cup documentation \cup decorators \cup content)),
       3)

\* The hints of a text that includes no domain keyword, as the texts of the
\* files chunked here.
NoHints == inferDomainHints({}, {}, {}, {})

createWholeFileChunk(lines) ==
  ASTChunk("file", <<"file">>, "", 1, Len(lines), lines, NoHints)

\* extractTypeScriptImports: one chunk from the first import declaration to
\* the last, whatever its size; none (null) without an import.
extractTypeScriptImports(nodes) ==
  LET imports == {i \in 1..Len(nodes) : nodes[i].kind = "import"}
      lines == FileLines(nodes)
  IN  IF imports = {} THEN <<>>
      ELSE LET first == CHOOSE i \in imports : \A j \in imports : i <= j
               last == CHOOSE i \in imports : \A j \in imports : j <= i
               startLine == StartLineOf(nodes, first) - 1
               endLine == StartLineOf(nodes, last) + NodeLines(nodes[last]) - 2
           IN  <<ASTChunk("import-block", <<"imports">>, "", startLine + 1, endLine + 1,
                          Slice(lines, startLine, endLine + 1), NoHints)>>

shouldChunkNested(chunk) ==
  /\ 10 * Length(chunk.content) > 7 * MaxChunkSize
  /\ chunk.chunkType \in {"class", "service", "controller", "component", "model"}

\* inferClassType by the decorator of the class; the names of the classes
\* here end in none of the suffixes of lines 496-502.
inferClassType(node) ==
  CASE node.decorator = "Controller" -> "controller"
    [] node.decorator \in {"Injectable", "Service"} -> "service"
    [] node.decorator \in {"Entity", "Model"} -> "model"
    [] node.decorator = "Component" -> "component"
    [] node.decorator = "Middleware" -> "middleware"
    [] OTHER -> "class"

\* processTypeScriptNode on the node that spans the 0-based lines
\* startLine..endLine: null (<<>>) for a node that is no declaration, and for
\* a declaration with fewer than minChunkSize characters.
processTypeScriptNode(lines, node, startLine, endLine, parentName) ==
  LET chunkContent == Slice(lines, startLine, endLine + 1)
      chunkType == IF node.kind = "class" THEN inferClassType(node) ELSE node.kind
      isPublicApi == IF node.kind = "method" THEN TRUE ELSE node.exported
  IN  IF node.kind \notin {"class", "function", "method"} THEN <<>>
      ELSE IF Length(chunkContent) < MinChunkSize THEN <<>>
      ELSE <<[ASTChunk(chunkType, <<node.kind>>, parentName, startLine + 1, endLine + 1,
                       chunkContent, NoHints)
              EXCEPT !.isPublicApi = isPublicApi]>>

\* visit(child, chunk.name) for the members of a class from member j on; the
\* header of the class is on the 0-based line headerLine.
RECURSIVE VisitMembers(_, _, _, _)
VisitMembers(lines, members, j, headerLine) ==
  IF j > Len(members) THEN <<>>
  ELSE processTypeScriptNode(lines, Node("method", members[j], <<>>), headerLine + j,
                             headerLine + j, "class")
       \o VisitMembers(lines, members, j + 1, headerLine)

\* visit(child) for the top-level node i (lines 260-275): its chunk, followed
\* by the chunks of its members when it is to be chunked nested.
VisitNode(nodes, i) ==
  LET lines == FileLines(nodes)
      startLine == StartLineOf(nodes, i) - 1
      endLine == startLine + NodeLines(nodes[i]) - 1
      chunk == processTypeScriptNode(lines, nodes[i], startLine, endLine, "")
  IN  IF chunk = <<>> THEN <<>>
      ELSE IF shouldChunkNested(chunk[1])
           THEN chunk \o VisitMembers(lines, nodes[i].members, 1, startLine)
           ELSE chunk

RECURSIVE VisitAll(_, _)
VisitAll(nodes, i) ==
  IF i > Len(nodes) THEN <<>> ELSE VisitNode(nodes, i) \o VisitAll(nodes, i + 1)

RECURSIVE MinStart(_)
MinStart(cs) ==
  IF Len(cs) = 1 THEN cs[1].startLine ELSE Min2(cs[1].startLine, MinStart(Tail(cs)))

RECURSIVE MaxEnd(_)
MaxEnd(cs) ==
  IF Len(cs) = 1 THEN cs[1].endLine ELSE Max2(cs[1].endLine, MaxEnd(Tail(cs)))

RECURSIVE AllNames(_)
AllNames(cs) == IF cs = <<>> THEN <<>> ELSE Head(cs).names \o AllNames(Tail(cs))

\* chunks.map(c => c.content).join('\n\n'): an empty line between two contents.
RECURSIVE JoinContents(_)
JoinContents(cs) ==
  IF Len(cs) = 1 THEN cs[1].content
  ELSE cs[1].content \o <<EmptyLine>> \o JoinContents(Tail(cs))

\* chunks.flatMap(c => c.domainHints || [])
RECURSIVE AllHints(_)
AllHints(cs) == IF cs = <<>> THEN <<>> ELSE Head(cs).domainHints \o AllHints(Tail(cs))

RECURSIVE SizeSum(_)
SizeSum(cs) == IF cs = <<>> THEN 0 ELSE Length(Head(cs).content) + SizeSum(Tail(cs))

\* A merge that keeps the first pending chunk only.
KeepFirstPending(cs) == cs[1]

mergePendingChunks(cs) ==
  IF Len(cs) = 1 THEN cs[1]
  ELSE ASTChunk("file", AllNames(cs), "", MinStart(cs), MaxEnd(cs), JoinContents(cs),
                Take(AllHints(cs), 3))

\* The loop of mergeSmallChunks over chunks from position i on.
RECURSIVE MergeLoop(_, _, _, _)
MergeLoop(cs, i, pending, result) ==
  IF i > Len(cs)
  THEN IF Len(pending) > 0 THEN Append(result, mergePendingChunks(pending)) ELSE result
  ELSE IF Length(cs[i].content) >= MinChunkSize * 2
       THEN MergeLoop(cs, i + 1, <<>>,
                      Append(IF Len(pending) > 0
                             THEN Append(result, mergePendingChunks(pending))
                             ELSE result,
                             cs[i]))
       ELSE LET grown == Append(pending, cs[i])
            IN  IF SizeSum(grown) >= MinChunkSize * 2
                THEN MergeLoop(cs, i + 1, <<>>, Append(result, mergePendingChunks(grown)))
                ELSE MergeLoop(cs, i + 1, grown, result)

mergeSmallChunks(cs) == IF Len(cs) <= 1 THEN cs ELSE MergeLoop(cs, 1, <<>>, <<>>)

chunkTypeScript(nodes) ==
  LET cs == extractTypeScriptImports(nodes) \o VisitAll(nodes, 1)
  IN  IF Len(cs) <= 1 /\ ContentLength(nodes) < MaxChunkSize
      THEN <<createWholeFileChunk(FileLines(nodes))>>
      ELSE mergeSmallChunks(cs)

\* No construct is open.
NoConstruct == [open |-> FALSE, start |-> 0, type |-> ""]
Construct(start, type) == [open |-> TRUE, start |-> start, type |-> type]

\* createPythonChunk: the lines from the start of the construct to endLine,
\* less the decorator lines of the next construct.
createPythonChunk(chunk, endLine, lines, nextDecorators) ==
  LET actualEnd == endLine - nextDecorators
  IN  ASTChunk(chunk.type, <<chunk.type>>, "", chunk.start + 1, actualEnd,
               Slice(lines, chunk.start, actualEnd), NoHints)

\* The loop of chunkPython from the 0-based line i on: a decorator line is
\* counted; a class at any indentation and a def at indentation 0 close the
\* open construct and open the next one; decorators is the number of
\* decorator lines since the last construct opened.
RECURSIVE PythonLoop(_, _, _, _, _)
PythonLoop(lines, i, currentChunk, decorators, chunks) ==
  IF i >= Len(lines)
  THEN IF currentChunk.open
       THEN Append(chunks, createPythonChunk(currentChunk, Len(lines), lines, 0))
       ELSE chunks
  ELSE LET line == lines[i + 1]
       IN  IF line.kind = "decorator"
           THEN PythonLoop(lines, i + 1, currentChunk, decorators + 1, chunks)
           ELSE IF line.kind = "class" \/ (line.kind \in {"function", "method"} /\ line.indent = 0)
           THEN PythonLoop(lines, i + 1,
                           Construct(i - decorators,
                                     IF line.kind = "class" THEN "class" ELSE "function"),
                           0,
                           IF currentChunk.open
                           THEN Append(chunks, createPythonChunk(currentChunk, i, lines, decorators))
                           ELSE chunks)
           ELSE PythonLoop(lines, i + 1, currentChunk, decorators, chunks)

chunkPython(nodes) ==
  LET lines == FileLines(nodes)
      chunks == PythonLoop(lines, 0, NoConstruct, 0, <<>>)
  IN  IF Len(chunks) > 0 THEN chunks ELSE <<createWholeFileChunk(lines)>>

finalizeGoChunk(chunk, endLine, lines) ==
  ASTChunk(chunk.type, <<chunk.type>>, "", chunk.start + 1, endLine,
           Slice(lines, chunk.start, endLine), NoHints)

\* The loop of chunkGo from the 0-based line i on: a func or a type at brace
\* depth 0 closes the open construct and opens the next one; the construct is
\* closed on the line where the braces return to depth 0.
RECURSIVE GoLoop(_, _, _, _, _)
GoLoop(lines, i, currentChunk, braceCount, chunks) ==
  IF i >= Len(lines)
  THEN IF currentChunk.open
       THEN Append(chunks, finalizeGoChunk(currentChunk, Len(lines), lines))
       ELSE chunks
  ELSE LET line == lines[i + 1]
           starts == line.kind \in {"function", "class"} /\ line.indent = 0 /\ braceCount = 0
           flushed == IF starts /\ currentChunk.open
                      THEN Append(chunks, finalizeGoChunk(currentChunk, i, lines))
                      ELSE chunks
           current == IF starts
                      THEN Construct(i, IF line.kind = "class" THEN "model" ELSE "function")
                      ELSE currentChunk
           depth == braceCount + Opens(line) - Closes(line)
       IN  IF current.open /\ depth = 0 /\ Closes(line) > 0
           THEN GoLoop(lines, i + 1, NoConstruct, depth,
                       Append(flushed, finalizeGoChunk(current, i + 1, lines)))
           ELSE GoLoop(lines, i + 1, current, depth, flushed)

chunkGo(nodes) ==
  LET lines == FileLines(nodes)
      chunks == GoLoop(lines, 0, NoConstruct, 0, <<>>)
  IN  IF Len(chunks) > 0 THEN chunks ELSE <<createWholeFileChunk(lines)>>

\* The inner loop of chunkCSharp on line i (lines 994-1015): the constructs on
\* top of the stack whose brace level the depth has come back to are popped,
\* and each is emitted when it has at least minChunkSize characters.
RECURSIVE PopClosed(_, _, _, _, _)
PopClosed(lines, i, constructStack, braceCount, chunks) ==
  IF Len(constructStack) = 0 THEN [stack |-> constructStack, chunks |-> chunks]
  ELSE LET top == constructStack[Len(constructStack)]
           chunkContent == Slice(lines, top.start, i + 1)
       IN  IF braceCount <= top.braceLevel
           THEN PopClosed(lines, i, SubSeq(constructStack, 1, Len(constructStack) - 1),
                          braceCount,
                          IF Length(chunkContent) >= MinChunkSize
                          THEN Append(chunks,
                                      ASTChunk(top.type, <<top.type>>, "", top.start + 1, i + 1,
                                               chunkContent, NoHints))
                          ELSE chunks)
           ELSE [stack |-> constructStack, chunks |-> chunks]

\* The loop of chunkCSharp from the 0-based line i on: a class line and a
\* method line (a function with its body) are pushed with the depth at which
\* they open.
RECURSIVE CSharpLoop(_, _, _, _, _)
CSharpLoop(lines, i, constructStack, braceCount, chunks) ==
  IF i >= Len(lines) THEN chunks
  ELSE LET line == lines[i + 1]
           pushed == IF line.kind \in {"class", "classdecl"}
                     THEN Append(constructStack,
                                 [start |-> i, type |-> "class", braceLevel |-> braceCount])
                     ELSE IF line.kind \in {"function", "method"}
                     THEN Append(constructStack,
                                 [start |-> i, type |-> "method", braceLevel |-> braceCount])
                     ELSE constructStack
           depth == braceCount + Opens(line) - Closes(line)
           popped == PopClosed(lines, i, pushed, depth, chunks)
       IN  CSharpLoop(lines, i + 1, popped.stack, depth, popped.chunks)

chunkCSharp(nodes) ==
  LET lines == FileLines(nodes)
      chunks == CSharpLoop(lines, 0, <<>>, 0, <<>>)
  IN  IF Len(chunks) > 0 THEN chunks ELSE <<createWholeFileChunk(lines)>>

\* chunkJavaLike: the chunks of chunkCSharp under another language name.
chunkJavaLike(nodes) == chunkCSharp(nodes)

\* A segment of chunkGeneric: the trimmed lines chunkStart..to-1, kept when
\* they have at least minChunkSize characters.
GenericSegment(lines, chunkStart, to) ==
  LET chunkContent == Trim(Slice(lines, chunkStart, to))
  IN  IF Length(chunkContent) >= MinChunkSize
      THEN <<ASTChunk("function", <<"segment">>, "", chunkStart + 1, to, chunkContent, NoHints)>>
      ELSE <<>>

\* The loop of chunkGeneric from the 0-based line i on: a line that matches a
\* function pattern at brace depth 0 ends the segment before it. (A class
\* header matches none of the generic patterns.)
RECURSIVE GenericLoop(_, _, _, _, _)
GenericLoop(lines, i, chunkStart, braceCount, chunks) ==
  IF i >= Len(lines) THEN chunks \o GenericSegment(lines, chunkStart, Len(lines))
  ELSE LET line == lines[i + 1]
           match == line.kind \in {"function", "method"} /\ braceCount = 0
           depth == braceCount + Opens(line) - Closes(line)
       IN  IF match
           THEN GenericLoop(lines, i + 1, i, depth,
                            IF i > chunkStart
                            THEN chunks \o GenericSegment(lines, chunkStart, i)
                            ELSE chunks)
           ELSE GenericLoop(lines, i + 1, chunkStart, depth, chunks)

chunkGeneric(nodes) ==
  LET lines == FileLines(nodes)
      chunks == GenericLoop(lines, 0, 0, 0, <<>>)
  IN  IF Len(chunks) > 0 THEN chunks ELSE <<createWholeFileChunk(lines)>>

\* chunkFile after the file has been read: the dispatch on the language of
\* the file's extension.
chunkFile(file) ==
  CASE file.language \in {"typescript", "javascript", "tsx", "jsx"} -> chunkTypeScript(file.nodes)
    [] file.language = "python" -> chunkPython(file.nodes)
    [] file.language = "csharp" -> chunkCSharp(file.nodes)
    [] file.language = "go" -> chunkGo(file.nodes)
    [] file.language \in {"java", "kotlin"} -> chunkJavaLike(file.nodes)
    [] OTHER -> chunkGeneric(file.nodes)

\* ------------------------------------------------------------------------
\* State
\* ------------------------------------------------------------------------
VARIABLES
  embedFails,       \* the embedding batches (numbered from 0) whose embedding throws
  faiss,            \* the faiss-node module was loaded (lines 14-19)
  padsK,            \* behaviour of the installed faiss-node build, see FaissSearch
  repo,             \* repository path -> the chunks its files yield now
  disk,             \* store directory -> [blob, meta], index.faiss and metadata.json
  ragSystem,        \* ArchitecturalWikiAgent.ragSystem: NULL or "set"
  config,           \* RAGSystem.config: [repoPath, storePath]
  index,            \* RAGSystem.index: NoIndex or the vectors added, label i at i + 1
  metadata,         \* RAGSystem.metadata: label -> StoredMetadata
  documentCount,    \* RAGSystem.documentCount
  pc,               \* where the indexRepository call in flight stands
  chunks,           \* its local chunks
  nCalls,           \* indexRepository calls started so far; the running one's number
  lastReturn,       \* how the last indexRepository call on this engine ended
  succeeded,        \* some indexRepository call on this engine returned normally
  forceRegenerate,  \* options.forceRegenerate of the generateWiki call that made the engine
  loadedFrom,       \* the builds of the blob and of the metadata a cache load read
  built,            \* store directory -> the engine fields at the end of the last
                    \* build that persisted both files there, and its call number
  lastSearch,       \* the RAGSystem.search call just made, with what it returned
  lastTool,         \* the search_codebase call just made, with what it returned
  astFile,          \* ASTChunker: the file given to chunkFile, [language, nodes]
  astDone,          \* ASTChunker: chunkFile has returned or thrown
  astThrew,         \* ASTChunker: chunkFile threw
  astResult,        \* ASTChunker: what chunkFile returned
  mergeIn,          \* ASTChunker: the chunks given to mergeSmallChunks
  mergeDone,        \* ASTChunker: mergeSmallChunks has returned
  mergeOut,         \* ASTChunker: what mergeSmallChunks returned
  hintIn,           \* ASTChunker: the texts given to inferDomainHints
  hintDone,         \* ASTChunker: inferDomainHints has returned
  hintOut,          \* ASTChunker: what inferDomainHints returned
  fileCall,         \* the last read of a caller-supplied path and what came of it
  embedIn,          \* RAGSystem: the two texts given to generateSimpleEmbeddings
  embedDone,        \* RAGSystem: generateSimpleEmbeddings has returned
  embedOut,         \* RAGSystem: the vectors it returned
  cutIn,            \* RAGSystem: the lines and the configuration given to chunkFile
  cutDone,          \* RAGSystem: chunkFile has returned
  cutOut            \* RAGSystem: [chunks, starts, startLine] of that call

engineVars == <<ragSystem, config, index, metadata, documentCount>>
callVars == <<pc, chunks, nCalls, lastReturn, succeeded, forceRegenerate, loadedFrom,
              built>>
astVars == <<astFile, astDone, astThrew, astResult>>
mergeVars == <<mergeIn, mergeDone, mergeOut>>
hintVars == <<hintIn, hintDone, hintOut>>
embedVars == <<embedIn, embedDone, embedOut>>
cutVars == <<cutIn, cutDone, cutOut>>
otherVars == <<astVars, mergeVars, hintVars, fileCall, embedVars, cutVars>>
ragVars == <<faiss, padsK, embedFails, repo, disk, engineVars, callVars, lastSearch,
             lastTool>>
vars == <<ragVars, otherVars>>

NoFile == [language |-> "", nodes |-> <<>>]
NoConfig == [repoPath |-> NULL, storePath |-> NULL]
NoLoad == [blob |-> 0, meta |-> 0]
EmptyStore == [blob |-> Absent, meta |-> Absent]
NoBuild == [build |-> 0, index |-> NoIndex, metadata |-> <<>>]

Options(m, f, e) == [maxResults |-> m, fileTypes |-> f, excludeTests |-> e]
AnyFile == [given |-> FALSE, exts |-> {}]
Only(exts) == [given |-> TRUE, exts |-> exts]

NoSearch == [made |-> FALSE, query |-> <<>>, options |-> Options(Unset, AnyFile, FALSE),
             out |-> [threw |-> FALSE, results |-> <<>>]]
NoTool == [made |-> FALSE, query |-> <<>>, args |-> Options(Unset, AnyFile, FALSE),
           out |-> [kind |-> "none", text |-> "", results |-> <<>>]]

EngineInit ==
  /\ ragSystem = NULL
  /\ config = NoConfig
  /\ index = NoIndex
  /\ metadata = <<>>
  /\ documentCount = 0
  /\ pc = "idle"
  /\ chunks = <<>>
  /\ nCalls = 0
  /\ lastReturn = "none"
  /\ succeeded = FALSE
  /\ forceRegenerate = FALSE
  /\ loadedFrom = NoLoad
  /\ built = [s \in Stores |-> NoBuild]
  /\ lastSearch = NoSearch
  /\ lastTool = NoTool

\* No call of the chunker is at hand.
AstIdle ==
  /\ astFile = NoFile
  /\ astDone = FALSE
  /\ astThrew = FALSE
  /\ astResult = <<>>

MergeIdle ==
  /\ mergeIn = <<>>
  /\ mergeDone = FALSE
  /\ mergeOut = <<>>

NoTexts == [name |-> {}, documentation |-> {}, content |-> {}]

HintIdle ==
  /\ hintIn = NoTexts
  /\ hintDone = FALSE
  /\ hintOut = <<>>

NoFileCall ==
  [op |-> "none", filePath |-> [absolute |-> FALSE, segments |-> <<>>],
   target |-> <<>>, touched |-> FALSE, outcome |-> "none"]

FileIdle == fileCall = NoFileCall

EmbedIdle ==
  /\ embedIn = <<>>
  /\ embedDone = FALSE
  /\ embedOut = <<>>

NoCut == [lines |-> <<>>, chunkSize |-> 1, chunkOverlap |-> 0]

\* The locals of RAGSystem.chunkFile when its loop begins: no chunk, no
\* iteration begun yet, startLine = 0.
NoChunks == [chunks |-> <<>>, starts |-> <<>>, startLine |-> 0]

CutIdle ==
  /\ cutIn = NoCut
  /\ cutDone = FALSE
  /\ cutOut = NoChunks

OthersIdle == AstIdle /\ MergeIdle /\ HintIdle /\ FileIdle /\ EmbedIdle /\ CutIdle

Init ==
  /\ faiss \in BOOLEAN
  /\ padsK \in (IF faiss THEN BOOLEAN ELSE {FALSE})
  /\ embedFails = {}
  /\ repo \in [Repos -> UNION {RepoContents(r) : r \in Repos}]
  /\ \A r \in Repos : repo[r] \in RepoContents(r)
  /\ disk = [s \in Stores |-> EmptyStore]
  /\ EngineInit
  /\ OthersIdle

\* lastSearch and lastTool hold a search and its result from the moment it
\* returns until the caller has taken the result (ResultTaken). A search
\* changes no field of the engine, so every other step is taken from the state
\* without a pending result.
Quiet == ~lastSearch.made /\ ~lastTool.made

\* ------------------------------------------------------------------------
\* RAGSystem.indexRepository
\* ------------------------------------------------------------------------
\* The synchronous head of indexRepository (lines 119-135) on an engine whose
\* fields are idx, meta and cnt: the cache is loaded and the call returns, or
\* the call goes on to discovery. read_index assigns this.index before the
\* metadata file is parsed, so a metadata failure leaves the loaded index.
TryLoadCache(cfg, idx, meta, cnt, succ) ==
  LET d == disk[cfg.storePath]
  IN  /\ nCalls' = nCalls + 1
      /\ chunks' = <<>>
      /\ IF d.blob.st # "absent" /\ d.meta.st # "absent" /\ faiss
         THEN \E readOk \in ReadOutcomes(d.blob), parseOk \in ReadOutcomes(d.meta) :
                IF readOk /\ parseOk
                THEN /\ index' = d.blob.data
                     /\ metadata' = ParseMetadata(d.meta.data)
                     /\ documentCount' = Cardinality(DOMAIN ParseMetadata(d.meta.data))
                     /\ pc' = "idle"
                     /\ lastReturn' = "loaded"
                     /\ succeeded' = TRUE
                     /\ loadedFrom' = [blob |-> d.blob.build, meta |-> d.meta.build]
                ELSE /\ index' = IF readOk THEN d.blob.data ELSE idx
                     /\ metadata' = meta
                     /\ documentCount' = cnt
                     /\ pc' = "chunk"
                     /\ lastReturn' = "running"
                     /\ succeeded' = succ
                     /\ loadedFrom' = NoLoad
         ELSE /\ index' = idx
              /\ metadata' = meta
              /\ documentCount' = cnt
              /\ pc' = "chunk"
              /\ lastReturn' = "running"
              /\ succeeded' = succ
              /\ loadedFrom' = NoLoad

\* indexRepository() called again on the engine at hand.
IndexRepository ==
  /\ Quiet
  /\ ragSystem # NULL
  /\ pc = "idle"
  /\ nCalls < MaxCalls
  /\ TryLoadCache(config, index, metadata, documentCount, succeeded)
  /\ forceRegenerate' = FALSE
  /\ lastSearch' = NoSearch
  /\ lastTool' = NoTool
  /\ UNCHANGED <<faiss, padsK, embedFails, repo, disk, ragSystem, config, built, otherVars>>

\* Discovery and chunking (lines 137-173): the chunks of the repository as it
\* is now; with none the call returns.
DiscoverAndChunk ==
  /\ Quiet
  /\ pc = "chunk"
  /\ chunks' = ChunkAll(discoverFiles(repo[config.repoPath], 1))
  /\ IF Len(ChunkAll(discoverFiles(repo[config.repoPath], 1))) = 0
     THEN /\ pc' = "idle"
          /\ lastReturn' = "empty"
          /\ succeeded' = TRUE
     ELSE /\ pc' = "embed"
          /\ UNCHANGED <<lastReturn, succeeded>>
  /\ lastSearch' = NoSearch
  /\ lastTool' = NoTool
  /\ UNCHANGED <<faiss, padsK, embedFails, repo, disk, engineVars, nCalls, forceRegenerate,
                 loadedFrom, built, otherVars>>

\* this.metadata.set(i, ...) for every chunk i: the entries of other keys stay.
SetAll(meta, cs) ==
  [k \in DOMAIN meta \cup 0..(Len(cs) - 1) |->
     IF k < Len(cs) THEN StoredMetadata(cs[k + 1]) ELSE meta[k]]

\* The vectors added to a new IndexFlatIP (lines 182-188).
AddAll(embeddings) == [i \in 1..Len(embeddings) |-> normalizeVector(embeddings[i])]

\* Embedding, then the synchronous rest of the call (lines 175-223).
EmbedAndStore ==
  /\ Quiet
  /\ pc = "embed"
  /\ LET embeddings == generateEmbeddings(chunks, embedFails)
         s == config.storePath
         newIndex == AddAll(embeddings)
         newMeta == SetAll(metadata, chunks)
     IN  IF faiss /\ Len(embeddings) > 0
         THEN /\ index' = newIndex
              /\ metadata' = newMeta
              /\ \E wb \in WriteOutcomes, wm \in WriteOutcomes :
                   LET blob == Written(disk[s].blob, wb, nCalls, newIndex)
                       meta == IF wb = "ok"
                               THEN Written(disk[s].meta, wm, nCalls, StringifyMetadata(newMeta))
                               ELSE disk[s].meta
                       ok == wb = "ok" /\ wm = "ok"
                   IN  /\ disk' = [disk EXCEPT ![s] = [blob |-> blob, meta |-> meta]]
                       /\ documentCount' = IF ok THEN Len(chunks) ELSE documentCount
                       /\ lastReturn' = IF ok THEN "built" ELSE "threw"
                       /\ succeeded' = (succeeded \/ ok)
                       /\ built' = IF ok
                                   THEN [built EXCEPT ![s] =
                                           [build |-> nCalls, index |-> newIndex,
                                            metadata |-> newMeta]]
                                   ELSE built
         ELSE /\ metadata' = newMeta
              /\ documentCount' = Len(chunks)
              /\ lastReturn' = "built"
              /\ succeeded' = TRUE
              /\ UNCHANGED <<index, disk, built>>
  /\ pc' = "idle"
  /\ lastSearch' = NoSearch
  /\ lastTool' = NoTool
  /\ UNCHANGED <<faiss, padsK, embedFails, repo, ragSystem, config, chunks, nCalls, forceRegenerate,
                 loadedFrom, otherVars>>

\* The process is stopped (Ctrl+C) at one of the awaits of a build.
Cancel ==
  /\ Quiet
  /\ pc \in {"chunk", "embed"}
  /\ ragSystem' = NULL
  /\ config' = NoConfig
  /\ index' = NoIndex
  /\ metadata' = <<>>
  /\ documentCount' = 0
  /\ pc' = "idle"
  /\ chunks' = <<>>
  /\ lastReturn' = "none"
  /\ succeeded' = FALSE
  /\ forceRegenerate' = FALSE
  /\ loadedFrom' = NoLoad
  /\ lastSearch' = NoSearch
  /\ lastTool' = NoTool
  /\ UNCHANGED <<faiss, padsK, embedFails, repo, disk, nCalls, built, otherVars>>

\* ------------------------------------------------------------------------
\* ArchitecturalWikiAgent
\* ------------------------------------------------------------------------
\* generateWiki(options), phase 2 (lines 99-105): a new RAGSystem for the
\* repository, storing under the output directory, and its indexRepository().
\* options.forceRegenerate is not read.
GenerateWiki(repoPath, outputDir, force) ==
  /\ Quiet
  /\ pc = "idle"
  /\ nCalls < MaxCalls
  /\ ragSystem' = "set"
  /\ config' = [repoPath |-> repoPath, storePath |-> outputDir]
  /\ TryLoadCache([repoPath |-> repoPath, storePath |-> outputDir], NoIndex, <<>>, 0, FALSE)
  /\ forceRegenerate' = force
  /\ lastSearch' = NoSearch
  /\ lastTool' = NoTool
  /\ UNCHANGED <<faiss, padsK, embedFails, repo, disk, built, otherVars>>

\* The files of a repository change. A call in flight reads them in one step
\* (DiscoverAndChunk), so a change during the call has the effect of the same
\* change before the call or after it, and is taken there.
RepoChange(r, content) ==
  /\ Quiet
  /\ pc = "idle"
  /\ content # repo[r]
  /\ repo' = [repo EXCEPT ![r] = content]
  /\ lastSearch' = NoSearch
  /\ lastTool' = NoTool
  /\ UNCHANGED <<faiss, padsK, embedFails, disk, engineVars, callVars, otherVars>>

\* Inputs of search
Queries == {<<W_auth, W_flow>>, <<W_pay, W_id>>}

SearchOptions ==
  {Options(Unset, AnyFile, FALSE), Options(0, AnyFile, FALSE), Options(1, AnyFile, TRUE),
   Options(1, AnyFile, FALSE), Options(2, Only({".ts"}), FALSE)}

\* RAGSystem.search(query, options) on the engine at hand, at any moment of
\* its life.
Search(query, options) ==
  /\ Quiet
  /\ ragSystem # NULL
  /\ lastSearch' = [made |-> TRUE, query |-> query, options |-> options,
                    out |-> search(index, metadata, faiss, padsK, query, options)]
  /\ lastTool' = NoTool
  /\ UNCHANGED <<faiss, padsK, embedFails, repo, disk, engineVars, callVars, otherVars>>

\* The handler of the search_codebase tool (part_003 lines 381-420). The
\* schema gives maxResults in 1..20 (default 10) and excludeTests (default
\* true).
ToolArgs == {Options(10, AnyFile, TRUE), Options(1, AnyFile, FALSE)}

SearchCodebaseHandler(rag, idx, meta, query, args) ==
  IF rag = NULL
  THEN [kind |-> "error", text |-> "Error: RAG system not initialized", results |-> <<>>]
  ELSE LET out == search(idx, meta, faiss, padsK, query,
                         Options(IF args.maxResults = 0 THEN DefaultMaxResults
                                 ELSE args.maxResults,
                                 args.fileTypes, args.excludeTests))
       IN  IF out.threw
           THEN [kind |-> "error", text |-> "Search error", results |-> <<>>]
           ELSE IF Len(out.results) > 0
                THEN [kind |-> "found", text |-> "Found relevant code snippets",
                      results |-> out.results]
                ELSE [kind |-> "none", text |-> "No relevant code found for this query.",
                      results |-> <<>>]

\* The agent calls the tool between generateWiki's steps, not during the
\* awaited indexRepository.
SearchCodebase(query, args) ==
  /\ Quiet
  /\ pc = "idle"
  /\ lastTool' = [made |-> TRUE, query |-> query, args |-> args,
                  out |-> SearchCodebaseHandler(ragSystem, index, metadata, query, args)]
  /\ lastSearch' = NoSearch
  /\ UNCHANGED <<faiss, padsK, embedFails, repo, disk, engineVars, callVars, otherVars>>

\* The caller has taken the result of the search it made.
ResultTaken ==
  /\ ~Quiet
  /\ lastSearch' = NoSearch
  /\ lastTool' = NoTool
  /\ UNCHANGED <<faiss, padsK, embedFails, repo, disk, engineVars, callVars, otherVars>>

Next ==
  \/ \E r \in Repos, s \in Stores, f \in BOOLEAN : GenerateWiki(r, s, f)
  \/ IndexRepository
  \/ DiscoverAndChunk
  \/ EmbedAndStore
  \/ Cancel
  \/ \E r \in Repos : \E c \in RepoContents(r) : RepoChange(r, c)
  \/ \E q \in Queries, o \in SearchOptions : Search(q, o)
  \/ \E q \in Queries, a \in ToolArgs : SearchCodebase(q, a)
  \/ ResultTaken

Spec == Init /\ [][Next]_vars

\* ------------------------------------------------------------------------
\* Builds of more repositories, with embedding batches that fail
\* ------------------------------------------------------------------------
InitIndex ==
  /\ faiss \in BOOLEAN
  /\ padsK = FALSE
  /\ embedFails \in SUBSET (0..((MaxChunks - 1) \div BatchSize))
  /\ repo \in [Repos -> UNION {WideContents(r) : r \in Repos}]
  /\ \A r \in Repos : repo[r] \in WideContents(r)
  /\ disk = [s \in Stores |-> EmptyStore]
  /\ EngineInit
  /\ OthersIdle

NextIndex ==
  \/ \E r \in Repos, s \in Stores : GenerateWiki(r, s, FALSE)
  \/ DiscoverAndChunk
  \/ EmbedAndStore

SpecIndex == InitIndex /\ [][NextIndex]_vars

\* ------------------------------------------------------------------------
\* Keyword search over an index of two chunks
\* ------------------------------------------------------------------------
\* The most words of a chunk.
MaxWords == 2

\* "authentication"
W_authentication ==
  <<97, 117, 116, 104, 101, 110, 116, 105, 99, 97, 116, 105, 111, 110>>

KeywordContents ==
  UNION {[1..n -> {W_authentication, W_flow, W_id}] : n \in 1..MaxWords}

\* The two one-chunk files of repository R1 with the given contents.
KeywordFiles(c1, c2) ==
  <<SrcFile(ChunkA1.filePath, TRUE,
            <<Chunk(ChunkA1.id, ChunkA1.filePath, c1, "typescript")>>),
    SrcFile(ChunkB2.filePath, TRUE,
            <<Chunk(ChunkB2.id, ChunkB2.filePath, c2, "typescript")>>)>>

\* The engine after indexRepository has built the index of such a repository
\* without faiss-node (the else branch of line 180: metadata alone).
InitKeyword ==
  /\ faiss = FALSE
  /\ padsK = FALSE
  /\ embedFails = {}
  /\ \E c1 \in KeywordContents, c2 \in KeywordContents :
       /\ repo = [r \in Repos |-> IF r = "R1" THEN KeywordFiles(c1, c2) ELSE <<>>]
       /\ chunks = ChunkAll(discoverFiles(KeywordFiles(c1, c2), 1))
  /\ disk = [s \in Stores |-> EmptyStore]
  /\ ragSystem = "set"
  /\ config = [repoPath |-> "R1", storePath |-> "S1"]
  /\ index = NoIndex
  /\ metadata = SetAll(<<>>, chunks)
  /\ documentCount = Len(chunks)
  /\ pc = "idle"
  /\ nCalls = 1
  /\ lastReturn = "built"
  /\ succeeded = TRUE
  /\ forceRegenerate = FALSE
  /\ loadedFrom = NoLoad
  /\ built = [s \in Stores |-> NoBuild]
  /\ lastSearch = NoSearch
  /\ lastTool = NoTool
  /\ OthersIdle

\* query.toLowerCase().split(/\s+/) of "authentication flow" and of "flow".
KeywordQueries == {<<W_authentication, W_flow>>, <<W_flow>>}

NextKeyword ==
  \/ \E query \in KeywordQueries, options \in SearchOptions : Search(query, options)
  \/ ResultTaken

SpecKeyword == InitKeyword /\ [][NextKeyword]_vars

\* ------------------------------------------------------------------------
\* ASTChunker.chunkFile on every small file
\* ------------------------------------------------------------------------
Languages == {"typescript", "python", "csharp", "go", "rust"}

NodeShapes ==
  {Node("import", 1, <<>>), Node("other", 1, <<>>), Node("other", MinChunkSize, <<>>),
   Node("blank", 0, <<>>), Node("decorator", 1, <<>>),
   Node("function", 1, <<>>), Node("function", MinChunkSize + 1, <<>>),
   Node("function", 2 * MinChunkSize, <<>>),
   Node("class", 0, <<>>), Node("class", 0, <<1, MaxChunkSize>>)}

Files ==
  {[language |-> l, nodes |-> ns] :
     l \in Languages, ns \in UNION {[1..n -> NodeShapes] : n \in 1..MaxNodes}}

\* No engine has been made.
RagIdle ==
  /\ faiss = FALSE
  /\ padsK = FALSE
  /\ embedFails = {}
  /\ repo = [r \in Repos |-> <<>>]
  /\ disk = [s \in Stores |-> EmptyStore]
  /\ EngineInit

InitAST ==
  /\ RagIdle
  /\ MergeIdle
  /\ HintIdle
  /\ FileIdle
  /\ EmbedIdle
  /\ CutIdle
  /\ astFile \in Files
  /\ astDone = FALSE
  /\ astThrew = FALSE
  /\ astResult = <<>>

\* ASTChunker.chunkFile(filePath, repoPath): fs.readFileSync gives the content
\* or throws (no such file, a directory, no permission), and nothing in
\* chunkFile catches.
ChunkFile(readOk) ==
  /\ ~astDone
  /\ astDone' = TRUE
  /\ astThrew' = ~readOk
  /\ astResult' = IF readOk THEN chunkFile(astFile) ELSE <<>>
  /\ UNCHANGED <<ragVars, astFile, mergeVars, hintVars, fileCall,
               embedVars, cutVars>>

NextAST == \E readOk \in BOOLEAN : ChunkFile(readOk)

SpecAST == InitAST /\ [][NextAST]_vars

\* ------------------------------------------------------------------------
\* ASTChunker.chunkFile on TypeScript files with a controller class
\* ------------------------------------------------------------------------
\* A class with the decorator @Controller and one public method of len
\* characters.
ControllerClass(len, exported) == ClassNode(<<len>>, exported, "Controller")

\* What stands beside the class in the file.
Companions ==
  UNION {[1..n -> {Node("import", 1, <<>>), Node("function", MinChunkSize + 1, <<>>),
                   Node("function", 2 * MinChunkSize, <<>>)}] : n \in 0..(MaxNodes - 1)}

ControllerFiles ==
  {[language |-> "typescript", nodes |-> ns] :
     ns \in UNION {{<<ControllerClass(len, e)>> \o c, c \o <<ControllerClass(len, e)>>} :
                     len \in 1..MaxChunkSize, e \in BOOLEAN, c \in Companions}}

InitController ==
  /\ RagIdle
  /\ MergeIdle
  /\ HintIdle
  /\ FileIdle
  /\ EmbedIdle
  /\ CutIdle
  /\ astFile \in ControllerFiles
  /\ astDone = FALSE
  /\ astThrew = FALSE
  /\ astResult = <<>>

SpecController == InitController /\ [][NextAST]_vars

\* ------------------------------------------------------------------------
\* ASTChunker.chunkFile on brace-delimited files (C#, Java)
\* ------------------------------------------------------------------------
BraceShapes ==
  {Node("classdecl", MinChunkSize, <<>>), Node("open", 1, <<>>), Node("close", 1, <<>>),
   Node("function", MinChunkSize + 1, <<>>), Node("class", 0, <<MinChunkSize + 1>>),
   Node("other", 1, <<>>)}

BraceFiles ==
  {[language |-> l, nodes |-> ns] :
     l \in {"csharp", "java"}, ns \in UNION {[1..n -> BraceShapes] : n \in 1..MaxNodes}}

InitBraces ==
  /\ RagIdle
  /\ MergeIdle
  /\ HintIdle
  /\ FileIdle
  /\ EmbedIdle
  /\ CutIdle
  /\ astFile \in BraceFiles
  /\ astDone = FALSE
  /\ astThrew = FALSE
  /\ astResult = <<>>

SpecBraces == InitBraces /\ [][NextAST]_vars

\* ------------------------------------------------------------------------
\* ASTChunker.mergeSmallChunks on every small list of chunks
\* ------------------------------------------------------------------------
\* DomainHint; confidence in tenths.
DomainHint(category, confidence) ==
  [category |-> category, confidence |-> confidence, source |-> "name",
   keywords |-> <<category>>]

\* The hints of chunk i: none, one, or two in descending confidence, the
\* categories of different chunks differing.
HintLists(i) ==
  {<<>>,
   <<DomainHint(<<"payment", i>>, 3 * i)>>,
   <<DomainHint(<<"authentication", i>>, 10), DomainHint(<<"logging", i>>, i)>>}

\* The contents of chunk i: one line of the file, from below minChunkSize to
\* twice minChunkSize.
ChunkSizes == {1, MinChunkSize, 2 * MinChunkSize - 1, 2 * MinChunkSize}

\* Chunk i of a file, as a chunker hands it to mergeSmallChunks: named i, on
\* line i.
InputChunks(i) ==
  {ASTChunk("function", <<i>>, "", i, i, <<Line(i, size, "function", 0)>>, hints) :
     size \in ChunkSizes, hints \in HintLists(i)}

MergeInputs ==
  {cs \in UNION {[1..n -> UNION {InputChunks(i) : i \in 1..MaxNodes}] : n \in 1..MaxNodes} :
     \A i \in 1..Len(cs) : cs[i] \in InputChunks(i)}

InitMerge ==
  /\ RagIdle
  /\ AstIdle
  /\ HintIdle
  /\ FileIdle
  /\ EmbedIdle
  /\ CutIdle
  /\ mergeIn \in MergeInputs
  /\ mergeDone = FALSE
  /\ mergeOut = <<>>

MergeSmallChunks ==
  /\ ~mergeDone
  /\ mergeDone' = TRUE
  /\ mergeOut' = mergeSmallChunks(mergeIn)
  /\ UNCHANGED <<ragVars, astVars, mergeIn, hintVars, fileCall,
               embedVars, cutVars>>

NextMerge == MergeSmallChunks

SpecMerge == InitMerge /\ [][NextMerge]_vars

\* The chunks of the input that an output chunk was made of.
Constituents(out) ==
  LET at == {i \in 1..Len(mergeIn) : mergeIn[i].names[1] = out.names[1]}
      first == CHOOSE i \in at : TRUE
  IN  SubSeq(mergeIn, first, first + Len(out.names) - 1)

\* C17: mergeSmallChunks preserves the order and loses no chunk: a chunk of at
\* least twice minChunkSize is in the output unchanged, only runs of
\* consecutive smaller chunks are combined, and the constituents of the output
\* chunks in output order are the input chunks in input order.
C17_MergeKeepsOrderAndChunks ==
  mergeDone =>
    /\ AllNames(mergeOut) = AllNames(mergeIn)
    /\ \A i \in 1..Len(mergeIn) :
         Length(mergeIn[i].content) >= 2 * MinChunkSize
           => \E j \in 1..Len(mergeOut) : mergeOut[j] = mergeIn[i]
    /\ \A j \in 1..Len(mergeOut) :
         IF Len(mergeOut[j].names) = 1
         THEN mergeOut[j] \in {mergeIn[i] : i \in 1..Len(mergeIn)}
         ELSE /\ \A k \in 1..Len(Constituents(mergeOut[j])) :
                   Length(Constituents(mergeOut[j])[k].content) < 2 * MinChunkSize
              /\ mergeOut[j].content = JoinContents(Constituents(mergeOut[j]))
              /\ mergeOut[j].startLine = Constituents(mergeOut[j])[1].startLine
              /\ mergeOut[j].endLine
                   = Constituents(mergeOut[j])[Len(mergeOut[j].names)].endLine

\* C17 witness: a merge that combined a run of small chunks and passed a
\* large chunk through.
C17_Witness ==
  /\ mergeDone
  /\ \E j \in 1..Len(mergeOut) : Len(mergeOut[j].names) > 1
  /\ \E j \in 1..Len(mergeOut) :
       Len(mergeOut[j].names) = 1 /\ Length(mergeOut[j].content) >= 2 * MinChunkSize

\* The hints of the constituents of an output chunk.
ConstituentHints(out) ==
  UNION {{Constituents(out)[k].domainHints[h] :
            h \in 1..Len(Constituents(out)[k].domainHints)} :
           k \in 1..Len(Constituents(out))}

\* C18: the domainHints of a merged chunk are the union of its constituents'
\* hints capped to the 3 of highest confidence, in descending order of
\* confidence.
C18_MergedHintsTopThree ==
  mergeDone =>
    \A j \in 1..Len(mergeOut) :
      Len(mergeOut[j].names) > 1 =>
        LET hints == mergeOut[j].domainHints
            all == ConstituentHints(mergeOut[j])
        IN  /\ Len(hints) = Min2(3, Cardinality(all))
            /\ \A h \in 1..Len(hints) : hints[h] \in all
            /\ \A g, h \in 1..Len(hints) :
                 g < h => hints[g].confidence >= hints[h].confidence
            /\ \A x \in all :
                 (\A h \in 1..Len(hints) : hints[h] # x)
                   => \A h \in 1..Len(hints) : hints[h].confidence >= x.confidence

\* ------------------------------------------------------------------------
\* ASTChunker.inferDomainHints on every placing of the keywords
\* ------------------------------------------------------------------------
Keywords ==
  UNION {{DOMAIN_KEYWORDS[c].keywords[k] : k \in 1..Len(DOMAIN_KEYWORDS[c].keywords)} :
           c \in 1..Len(DOMAIN_KEYWORDS)}

\* Each keyword is absent or occurs in the name, in the documentation or in
\* the content of the construct.
Placings == [Keywords -> {"absent", "name", "documentation", "content"}]

TextsOf(placing) ==
  [name |-> {k \in Keywords : placing[k] = "name"},
   documentation |-> {k \in Keywords : placing[k] = "documentation"},
   content |-> {k \in Keywords : placing[k] = "content"}]

InitHints ==
  /\ RagIdle
  /\ AstIdle
  /\ MergeIdle
  /\ FileIdle
  /\ EmbedIdle
  /\ CutIdle
  /\ hintIn \in {TextsOf(placing) : placing \in Placings}
  /\ hintDone = FALSE
  /\ hintOut = <<>>

InferDomainHints ==
  /\ ~hintDone
  /\ hintDone' = TRUE
  /\ hintOut' = inferDomainHints(hintIn.name, hintIn.documentation, {}, hintIn.content)
  /\ UNCHANGED <<ragVars, astVars, mergeVars, hintIn, fileCall,
               embedVars, cutVars>>

NextHints == InferDomainHints

SpecHints == InitHints /\ [][NextHints]_vars

\* C19: for every category that inferDomainHints returns, source is the
\* highest-weight place in which any matched keyword of the category occurs:
\* "name", otherwise "documentation", otherwise "content".
C19_SourceIsHighestWeightPlace ==
  hintDone =>
    \A h \in 1..Len(hintOut) :
      LET matched == {hintOut[h].keywords[k] : k \in 1..Len(hintOut[h].keywords)}
      IN  hintOut[h].source
            = IF matched \cap hintIn.name # {} THEN "name"
              ELSE IF matched \cap hintIn.documentation # {} THEN "documentation"
              ELSE "content"

\* ------------------------------------------------------------------------
\* Reads of caller-supplied paths (FileOperations, ASTChunker.chunkFile, the
\* analyze_code_structure tool)
\* ------------------------------------------------------------------------
\* The most segments of a caller-supplied path.
MaxSegments == 3

Segments == {"..", "repo", "src", "a.ts", "secret"}

\* An absolute path is the sequence of its segments below "/". The repository
\* root (FileOperations.baseDir, repoPath) and the files and directories of
\* the machine.
baseDir == <<"repo">>

FsFiles == {<<"repo", "a.ts">>, <<"repo", "src", "a.ts">>, <<"secret">>}

FsDirs == {<<>>, <<"repo">>, <<"repo", "src">>}

\* Normalisation of an absolute path: ".." removes the segment before it and
\* is dropped at the root.
RECURSIVE Normalize(_, _)
Normalize(done, rest) ==
  IF rest = <<>> THEN done
  ELSE IF Head(rest) = ".."
       THEN Normalize(IF done = <<>> THEN <<>> ELSE SubSeq(done, 1, Len(done) - 1),
                      Tail(rest))
       ELSE Normalize(Append(done, Head(rest)), Tail(rest))

\* path.resolve(base, filePath): an absolute filePath replaces base.
resolve(base, filePath) ==
  IF filePath.absolute THEN Normalize(<<>>, filePath.segments)
  ELSE Normalize(<<>>, base \o filePath.segments)

\* path.join(base, filePath): the segments of both, normalised.
join(base, filePath) == Normalize(<<>>, base \o filePath.segments)

\* absolutePath.startsWith(baseDir + '/') || absolutePath === baseDir
StartsWithBaseDir(absolutePath) ==
  /\ Len(absolutePath) >= Len(baseDir)
  /\ SubSeq(absolutePath, 1, Len(baseDir)) = baseDir

\* validatePath: the resolved path, or the "Access denied" error.
validatePath(filePath) ==
  LET absolutePath == resolve(baseDir, filePath)
  IN  IF ~StartsWithBaseDir(absolutePath)
      THEN [denied |-> TRUE, path |-> absolutePath]
      ELSE [denied |-> FALSE, path |-> absolutePath]

FileCall(op, filePath, target, touched, outcome) ==
  [op |-> op, filePath |-> filePath, target |-> target, touched |-> touched,
   outcome |-> outcome]

\* A method of FileOperations: validatePath, then the file-system call on the
\* safe path; ok is the set of paths on which that call succeeds.
FileOperation(op, filePath, ok) ==
  LET safe == validatePath(filePath)
  IN  IF safe.denied THEN FileCall(op, filePath, safe.path, FALSE, "Access denied")
      ELSE FileCall(op, filePath, safe.path, TRUE,
                    IF safe.path \in ok THEN "served" ELSE "failed")

CallerPaths ==
  [absolute : BOOLEAN,
   segments : UNION {[1..n -> Segments] : n \in 0..MaxSegments}]

\* Each read is a call of its own: it starts from no call made and leaves the
\* rest of the state alone.
FileUnchanged == UNCHANGED <<ragVars, astVars, mergeVars, hintVars, embedVars, cutVars>>

ReadFile(filePath) ==
  /\ FileIdle
  /\ fileCall' = FileOperation("readFile", filePath, FsFiles)
  /\ FileUnchanged

\* fileExists answers false where access fails.
FileExists(filePath) ==
  /\ FileIdle
  /\ fileCall' = FileOperation("fileExists", filePath, FsFiles \cup FsDirs)
  /\ FileUnchanged

ListFiles(dirPath) ==
  /\ FileIdle
  /\ fileCall' = FileOperation("listFiles", dirPath, FsDirs)
  /\ FileUnchanged

GetFileStats(filePath) ==
  /\ FileIdle
  /\ fileCall' = FileOperation("getFileStats", filePath, FsFiles \cup FsDirs)
  /\ FileUnchanged

\* ASTChunker.chunkFile, lines 210-211: the path is joined to repoPath and
\* read; readFileSync throws where there is no file.
ChunkFileRead(filePath) ==
  /\ FileIdle
  /\ LET fullPath == join(baseDir, filePath)
     IN  fileCall' = FileCall("chunkFile", filePath, fullPath, TRUE,
                              IF fullPath \in FsFiles THEN "served" ELSE "failed")
  /\ FileUnchanged

\* analyze_code_structure: "File not found" where existsSync is false, the
\* analysis of the content read, or "Analysis error" where the read throws.
AnalyzeCodeStructure(filePath) ==
  /\ FileIdle
  /\ LET fullPath == join(baseDir, filePath)
     IN  fileCall' =
           FileCall("analyze_code_structure", filePath, fullPath, TRUE,
                    IF fullPath \notin FsFiles \cup FsDirs THEN "File not found"
                    ELSE IF fullPath \in FsFiles THEN "served"
                    ELSE "failed")
  /\ FileUnchanged

InitFiles ==
  /\ RagIdle
  /\ AstIdle
  /\ MergeIdle
  /\ HintIdle
  /\ FileIdle
  /\ EmbedIdle
  /\ CutIdle

NextFiles ==
  \E filePath \in CallerPaths :
    \/ ReadFile(filePath)
    \/ FileExists(filePath)
    \/ ListFiles(filePath)
    \/ GetFileStats(filePath)
    \/ ChunkFileRead(filePath)
    \/ AnalyzeCodeStructure(filePath)

SpecFiles == InitFiles /\ [][NextFiles]_vars

\* ------------------------------------------------------------------------
\* generateSimpleEmbeddings on every pair of short texts
\* ------------------------------------------------------------------------
\* "aaa" and "bcb": simpleHash gives 96321 and 97345, which differ by 1024.
W_aaa == <<97, 97, 97>>
W_bcb == <<98, 99, 98>>

\* The texts, as the tokens that toLowerCase, replace and split leave
\* (lines 366-368), before the filter on their length.
EmbedTexts == UNION {[1..n -> {W_auth, W_id, W_aaa, W_bcb}] : n \in 0..MaxWords}

InitEmbed ==
  /\ RagIdle
  /\ AstIdle
  /\ MergeIdle
  /\ HintIdle
  /\ FileIdle
  /\ CutIdle
  /\ embedIn \in {<<[content |-> a], [content |-> b]>> : a \in EmbedTexts, b \in EmbedTexts}
  /\ embedDone = FALSE
  /\ embedOut = <<>>

GenerateSimpleEmbeddings ==
  /\ ~embedDone
  /\ embedDone' = TRUE
  /\ embedOut' = generateSimpleEmbeddings(embedIn)
  /\ UNCHANGED <<ragVars, astVars, mergeVars, hintVars, fileCall, embedIn, cutVars>>

NextEmbed == GenerateSimpleEmbeddings

SpecEmbed == InitEmbed /\ [][NextEmbed]_vars

\* ------------------------------------------------------------------------
\* RAGSystem.chunkFile: line-based chunks with overlap
\* ------------------------------------------------------------------------
\* The most lines of a file.
MaxLines == 4

\* The inner loop of lines 282-285: lines are taken from endLine (0-based) on
\* until chunkSize characters are counted or the file ends.
RECURSIVE CountedEnd(_, _, _, _)
CountedEnd(lines, endLine, charCount, chunkSize) ==
  IF endLine < Len(lines) /\ charCount < chunkSize
  THEN CountedEnd(lines, endLine + 1, charCount + lines[endLine + 1].len + 1, chunkSize)
  ELSE endLine

\* Lines 288-295: the chunk is extended through the first empty line or
\* closing brace among the next LookAheadLines lines.
LogicalEnd(lines, endLine) ==
  LET lookAhead == Min2(endLine + LookAheadLines, Len(lines))
      found == {i \in endLine..(lookAhead - 1) : lines[i + 1].kind \in {"blank", "close"}}
  IN  IF found = {} THEN endLine
      ELSE (CHOOSE i \in found : \A j \in found : i <= j) + 1

\* The next start without the test of line 315.
OverlapStartLine(prevStartLine, endLine, overlap) == endLine - (overlap \div OverlapUnit)

\* Lines 310-318: the start of the next chunk, overlap / 50 lines back from
\* endLine, and endLine itself where that makes no progress.
NextStartLine(prevStartLine, endLine, overlap) ==
  LET startLine == endLine - (overlap \div OverlapUnit)
  IN  IF startLine <= prevStartLine THEN endLine ELSE startLine

\* One round of the outer loop (lines 277-318).
ChunkFileRound ==
  /\ ~cutDone
  /\ cutOut.startLine < Len(cutIn.lines)
  /\ LET startLine == cutOut.startLine
         endLine == LogicalEnd(cutIn.lines,
                               CountedEnd(cutIn.lines, startLine, 0, cutIn.chunkSize))
         chunkContent == Slice(cutIn.lines, startLine, endLine)
     IN  cutOut' =
           [chunks |-> IF Length(Trim(chunkContent)) > TinyChunkLength
                       THEN Append(cutOut.chunks,
                                   [startLine |-> startLine + 1, endLine |-> endLine,
                                    content |-> chunkContent])
                       ELSE cutOut.chunks,
            starts |-> Append(cutOut.starts, startLine),
            startLine |-> NextStartLine(startLine, endLine, cutIn.chunkOverlap)]
  /\ UNCHANGED <<ragVars, astVars, mergeVars, hintVars, fileCall, embedVars, cutIn, cutDone>>

\* The loop ends and chunkFile returns chunks.
ChunkFileReturn ==
  /\ ~cutDone
  /\ cutOut.startLine >= Len(cutIn.lines)
  /\ cutDone' = TRUE
  /\ UNCHANGED <<ragVars, astVars, mergeVars, hintVars, fileCall, embedVars, cutIn, cutOut>>

\* content.split('\n') of the files: lines of 30 and of 60 characters, empty
\* lines and lines "}".
CutLines ==
  {FileLines(ns) :
     ns \in UNION {[1..n -> {Node("other", 30, <<>>), Node("other", 60, <<>>),
                             Node("blank", 0, <<>>), Node("close", 1, <<>>)}] :
                     n \in 1..MaxLines}}

InitCut ==
  /\ RagIdle
  /\ AstIdle
  /\ MergeIdle
  /\ HintIdle
  /\ FileIdle
  /\ EmbedIdle
  /\ cutIn \in [lines : CutLines, chunkSize : {1, 60, 100},
                chunkOverlap : {-50, 0, 49, 50, 100, 200}]
  /\ cutDone = FALSE
  /\ cutOut = NoChunks

NextCut == ChunkFileRound \/ ChunkFileReturn

SpecCut == InitCut /\ [][NextCut]_vars

\* C16: every read of a caller-supplied path that resolves outside the
\* repository root is rejected with the access-denied error and touches
\* nothing outside the root.
C16_OutsideRootIsDenied ==
  (fileCall.op # "none" /\ ~StartsWithBaseDir(fileCall.target)) =>
    /\ fileCall.outcome = "Access denied"
    /\ ~fileCall.touched

\* The paths of the files in lexicographic order, and the place of a path in
\* that order.
SortedPaths ==
  <<ChunkB1.filePath, ChunkA1.filePath, ChunkA2.filePath, ChunkB2.filePath>>

PathRank(p) == CHOOSE i \in 1..Len(SortedPaths) : SortedPaths[i] = p

\* startLine of a stored chunk, the number after the colon of its id.
StartLine(m) == IF m.id = ChunkA3.id THEN 8 ELSE 1

\* C14: the indexed chunks are sorted by (filePath, startLine) before
\* persistence, so integer id i of the metadata table denotes the i-th chunk
\* in that order, whatever the order of discovery.
C14_ChunksSortedByPath ==
  lastReturn = "built" =>
    \A i, j \in DOMAIN metadata :
      i < j =>
        \/ PathRank(metadata[i].filePath) < PathRank(metadata[j].filePath)
        \/ /\ metadata[i].filePath = metadata[j].filePath
           /\ StartLine(metadata[i]) <= StartLine(metadata[j])

\* The vector generateEmbeddings is to give for chunk i (1-based): the zero
\* vector when the batch of the chunk failed, else the embedding of the chunk.
ExpectedVector(i) ==
  IF ((i - 1) \div BatchSize) \in embedFails THEN ZeroVector
  ELSE SimpleEmbedding(chunks[i].content)

\* C15: after any pattern of batch failures generateEmbeddings gives one vector
\* per chunk, the zero vector for each chunk of a failed batch and the chunk's
\* own embedding otherwise, so vector i and metadata entry i are of chunk i.
C15_VectorsAlignedWithChunks ==
  (lastReturn = "built" /\ faiss) =>
    /\ Len(index) = Len(chunks)
    /\ \A i \in 1..Len(chunks) :
         /\ index[i] = normalizeVector(ExpectedVector(i))
         /\ metadata[i - 1] = StoredMetadata(chunks[i])

\* C15 witness: a build of three chunks in two batches, of which the first
\* failed and the second did not.
C15_Witness ==
  /\ lastReturn = "built"
  /\ faiss
  /\ Len(chunks) = 3
  /\ embedFails = {0}
  /\ index[1] = ZeroVector
  /\ index[3] # ZeroVector

\* C10: for every non-empty input file in every language, chunkFile returns
\* at least one chunk.
C10_AtLeastOneChunk ==
  (astDone /\ ~astThrew /\ ContentLength(astFile.nodes) > 0) => Len(astResult) >= 1

\* C11: chunkFile never raises; when reading or parsing the file fails it
\* returns a single whole-file chunk for that file.
C11_ChunkFileNeverRaises == astDone => ~astThrew

\* C12: the content of every chunk that chunkFile returns is exactly the
\* source lines startLine..endLine of the file, joined by newlines.
C12_ContentIsSourceLines ==
  (astDone /\ ~astThrew) =>
    \A i \in 1..Len(astResult) :
      /\ 1 <= astResult[i].startLine
      /\ astResult[i].endLine <= Len(FileLines(astFile.nodes))
      /\ astResult[i].content
           = SubSeq(FileLines(astFile.nodes), astResult[i].startLine, astResult[i].endLine)

\* C13: the chunks that chunkFile returns for one file are ordered by
\* startLine, on every language path.
C13_OrderedByStartLine ==
  (astDone /\ ~astThrew) =>
    \A i, j \in 1..Len(astResult) :
      i < j => astResult[i].startLine <= astResult[j].startLine

\* C20: every chunk that chunkFile returns, other than the whole-file fallback
\* chunk, has at least minChunkSize characters of content.
C20_NoChunkBelowMinimum ==
  (astDone /\ ~astThrew /\ astResult # <<createWholeFileChunk(FileLines(astFile.nodes))>>) =>
    \A i \in 1..Len(astResult) : Length(astResult[i].content) >= MinChunkSize

\* ------------------------------------------------------------------------
\* Properties of RAGSystem and its callers
\* ------------------------------------------------------------------------
\* Both files complete and written by the same build.
ValidPair(d) ==
  /\ d.blob.st = "complete"
  /\ d.meta.st = "complete"
  /\ d.blob.build = d.meta.build

\* C1: search returns a non-empty list only if some indexRepository call on
\* the engine has returned successfully; during a build and after a build
\* that failed it returns the empty list.
C1_SearchOnlyAfterSuccess ==
  (lastSearch.made /\ Len(lastSearch.out.results) > 0) => succeeded

\* C2: whenever an indexRepository call loads the cache, the vector blob and
\* the metadata table it loads were written by one and the same build.
C2_LoadedPairFromOneBuild ==
  lastReturn = "loaded" => loadedFrom.blob = loadedFrom.meta

\* C3: after a build, the metadata table search reads holds exactly the
\* chunks of that build, and no entry of an earlier build.
C3_MetadataIsLastBuild ==
  lastReturn = "built" =>
    metadata = [k \in 0..(Len(chunks) - 1) |-> StoredMetadata(chunks[k + 1])]

\* C4: when writing the blob or the metadata file fails during a build,
\* indexRepository throws, and a valid artifact pair that was on disk before
\* the build is left unchanged.
C4_FailedWriteKeepsArtifacts ==
  [][(pc = "embed" /\ lastReturn' = "threw" /\ ValidPair(disk[config.storePath]))
       => disk' = disk]_vars

\* C5: an engine that loaded the artifacts one build persisted returns from
\* search, for every query and options, the same ranked chunks with the same
\* scores as the engine that built and persisted them.
C5_PersistenceRoundTrip ==
  (/\ lastReturn = "loaded"
   /\ loadedFrom.blob = loadedFrom.meta
   /\ built[config.storePath].build = loadedFrom.meta)
  => \A q \in Queries, o \in SearchOptions :
       search(index, metadata, faiss, padsK, q, o)
         = search(built[config.storePath].index, built[config.storePath].metadata,
                  faiss, padsK, q, o)

\* C5 witness: an engine that loaded the pair of one build has searched and
\* found chunks.
C5_Witness ==
  /\ lastReturn = "loaded"
  /\ loadedFrom.blob = loadedFrom.meta
  /\ built[config.storePath].build = loadedFrom.meta
  /\ lastSearch.made
  /\ Len(lastSearch.out.results) > 0

\* C6: an engine created for repository R serves only chunks of R, also when
\* another repository was indexed into the same store directory.
C6_ServesOwnRepository ==
  lastSearch.made =>
    \A i \in 1..Len(lastSearch.out.results) :
      RepoOf(lastSearch.out.results[i].chunk) = config.repoPath

\* C7: when a force rebuild is requested (forceRegenerate), indexRepository
\* does not load the cache: it builds again.
C7_ForceRebuilds ==
  lastReturn = "loaded" => ~forceRegenerate

\* C8: a search against an unindexed or empty index yields the empty result
\* and no error: RAGSystem.search on an empty table or after a build that
\* found no chunks, and the search_codebase tool before any engine exists.
C8_EmptyIndexSearchIsEmpty ==
  /\ (lastSearch.made /\ (DOMAIN metadata = {} \/ lastReturn = "empty"))
       => (~lastSearch.out.threw /\ lastSearch.out.results = <<>>)
  /\ (lastTool.made /\ ragSystem = NULL) => lastTool.out.kind = "none"

\* C9: for every query and every value of maxResults, the list search
\* returns has at most maxResults entries.
C9_AtMostMaxResults ==
  (lastSearch.made /\ ~lastSearch.out.threw /\ lastSearch.options.maxResults # Unset)
    => Len(lastSearch.out.results) <= lastSearch.options.maxResults

\* C21: in keyword mode, on an index of two chunks of which exactly one
\* contains the word "authentication", the query "authentication flow" returns
\* that chunk strictly first.
C21_MatchingChunkFirst ==
  LET has(k) == CountIn(W_authentication, metadata[k].content) > 0
  IN  (/\ lastSearch.made
       /\ lastSearch.query = <<W_authentication, W_flow>>
       /\ lastSearch.options = Options(Unset, AnyFile, FALSE)
       /\ DOMAIN metadata = {0, 1}
       /\ has(0) # has(1))
      => /\ Len(lastSearch.out.results) >= 1
         /\ has(CHOOSE k \in {0, 1} : metadata[k] = lastSearch.out.results[1].chunk)

\* The vocabulary of a text: its tokens longer than 2 characters.
Vocabulary(text) == {LongWords(text)[i] : i \in 1..Len(LongWords(text))}

\* C22: two texts with disjoint vocabularies have fallback embeddings of
\* cosine similarity 0: no component is non-zero in both.
C22_DisjointVocabulariesOrthogonal ==
  (embedDone /\ Vocabulary(embedIn[1].content) \cap Vocabulary(embedIn[2].content) = {})
    => /\ InnerProduct(embedOut[1], embedOut[2]).dot = 0
       /\ DOMAIN embedOut[1].num \cap DOMAIN embedOut[2].num = {}

\* C23: the fallback embedding of every text, also of one with no token longer
\* than 2 characters, is of unit norm and is not the zero vector.
C23_EmbeddingUnitNorm ==
  embedDone =>
    \A i \in 1..Len(embedOut) :
      /\ embedOut[i] # ZeroVector
      /\ SumSquares(embedOut[i].num) = embedOut[i].den2

\* C24: for a TypeScript file holding a class with the decorator @Controller
\* and one public method, chunkFile returns a chunk for that class with
\* chunkType = controller and isPublicApi = true, whatever the size of the
\* file and whether or not the class is exported.
C24_ControllerChunk ==
  (/\ astDone
   /\ ~astThrew
   /\ \E i \in 1..Len(astFile.nodes) : astFile.nodes[i].decorator = "Controller")
    => \E k \in 1..Len(astResult) :
         /\ astResult[k].chunkType = "controller"
         /\ astResult[k].isPublicApi

\* The brace depth after the first k lines.
RECURSIVE Depth(_, _)
Depth(lines, k) ==
  IF k = 0 THEN 0 ELSE Depth(lines, k - 1) + Opens(lines[k]) - Closes(lines[k])

Balanced(lines) ==
  /\ \A k \in 1..Len(lines) : Depth(lines, k) >= 0
  /\ Depth(lines, Len(lines)) = 0

\* The lines (1-indexed) that close the body of the construct declared on line
\* s, whose opening brace stands on line s or alone on line s + 1: the depth
\* is back at that before s after the brace has opened.
BodyCloses(lines, s) ==
  LET opening == IF Opens(lines[s]) > 0 THEN {s}
                 ELSE IF s < Len(lines) /\ lines[s + 1].kind = "open" THEN {s + 1}
                 ELSE {}
  IN  {j \in s..Len(lines) :
         /\ Depth(lines, j) = Depth(lines, s - 1)
         /\ \E m \in opening : m <= j}

\* C25: in the brace-tracking path a construct is popped and emitted on the
\* line that closes its body and not before, so its chunk spans from the
\* declaration line through that line, also when the opening brace stands on
\* the line after the declaration.
C25_PoppedAtClosingLine ==
  (/\ astDone
   /\ ~astThrew
   /\ astFile.language \in {"csharp", "java", "kotlin"}
   /\ Balanced(FileLines(astFile.nodes)))
    => \A k \in 1..Len(astResult) :
         LET closes == BodyCloses(FileLines(astFile.nodes), astResult[k].startLine)
         IN  (astResult[k].chunkType # "file" /\ closes # {})
               => astResult[k].endLine = CHOOSE j \in closes : \A h \in closes : j <= h

\* The class-like chunk types of shouldChunkNested.
ClassLike == {"class", "service", "controller", "component", "model"}

\* The content of top-level node i of a file.
NodeContent(nodes, i) ==
  Slice(FileLines(nodes), StartLineOf(nodes, i) - 1,
        StartLineOf(nodes, i) + NodeLines(nodes[i]) - 1)

\* C26: with chunkNestedConstructs on, a class-like construct whose content
\* exceeds 70% of maxChunkSize has its members emitted as chunks of their own
\* and is itself not kept as a whole chunk in the result of chunkFile.
C26_OversizedParentNotKept ==
  (astDone /\ ~astThrew /\ astFile.language = "typescript") =>
    \A i \in 1..Len(astFile.nodes) :
      (/\ astFile.nodes[i].kind = "class"
       /\ 10 * Length(NodeContent(astFile.nodes, i)) > 7 * MaxChunkSize)
        => ~\E k \in 1..Len(astResult) :
              /\ astResult[k].chunkType \in ClassLike
              /\ astResult[k].content = NodeContent(astFile.nodes, i)

\* The number of chunks extraction finds in a file, before the whole-file
\* fallback and the merge of small chunks.
Extracted(file) ==
  IF file.language = "typescript"
  THEN Len(extractTypeScriptImports(file.nodes) \o VisitAll(file.nodes, 1))
  ELSE Len(GenericLoop(FileLines(file.nodes), 0, 0, 0, <<>>))

\* The file has no import, function or class.
WithoutConstruct(file) ==
  \A i \in 1..Len(file.nodes) : file.nodes[i].kind \notin {"import", "function", "class"}

\* C27: on the structural path (TypeScript) and the generic fallback, when no
\* construct is found, or at most one chunk is found and the file is smaller
\* than maxChunkSize, chunkFile returns exactly one whole-file chunk:
\* chunkType = file, startLine = 1, endLine = the number of lines of the file.
C27_WholeFileFallback ==
  (/\ astDone
   /\ ~astThrew
   /\ astFile.language \in {"typescript", "rust"}
   /\ \/ WithoutConstruct(astFile)
      \/ Extracted(astFile) <= 1 /\ ContentLength(astFile.nodes) < MaxChunkSize)
    => /\ Len(astResult) = 1
       /\ astResult[1].chunkType = "file"
       /\ astResult[1].startLine = 1
       /\ astResult[1].endLine = Len(FileLines(astFile.nodes))

\* C28: after every indexRepository call, returned or thrown, with either
\* backend, getDocumentCount() is the number of entries of the metadata
\* table.
C28_DocumentCountIsMetadataSize ==
  (ragSystem # NULL /\ pc = "idle" /\ lastReturn # "none")
    => documentCount = Cardinality(DOMAIN metadata)

\* C29: RAGSystem.chunkFile terminates for every chunkSize >= 1 and every
\* chunkOverlap: every round of its outer loop begins at a line of the file
\* strictly after the line at which the round before began.
C29_EveryRoundAdvances ==
  /\ \A k \in 1..Len(cutOut.starts) :
       /\ cutOut.starts[k] < Len(cutIn.lines)
       /\ k > 1 => cutOut.starts[k - 1] < cutOut.starts[k]
  /\ Len(cutOut.starts) > 0 => cutOut.starts[Len(cutOut.starts)] < cutOut.startLine

\* C29 witness: chunkFile has returned after three rounds, the overlap having
\* been taken back by the test on progress in one of them.
C29_Witness ==
  /\ cutDone
  /\ Len(cutOut.starts) >= 3
  /\ cutIn.chunkOverlap = 200
  /\ \E k \in 2..Len(cutOut.starts) :
       cutOut.starts[k] - (cutIn.chunkOverlap \div OverlapUnit) <= cutOut.starts[k - 1]

\* C30: no chunk of RAGSystem.chunkFile is redundant: no chunk's line range
\* lies wholly within that of another chunk, and two consecutive chunks
\* share at most floor(chunkOverlap / 50) lines, also at the end of the file.
C30_NoRedundantChunk ==
  cutDone =>
    /\ \A a, b \in 1..Len(cutOut.chunks) :
         a # b => ~(/\ cutOut.chunks[b].startLine <= cutOut.chunks[a].startLine
                    /\ cutOut.chunks[a].endLine <= cutOut.chunks[b].endLine)
    /\ \A a \in 1..(Len(cutOut.chunks) - 1) :
         cutOut.chunks[a].endLine - cutOut.chunks[a + 1].startLine + 1
           <= Max2(0, cutIn.chunkOverlap \div OverlapUnit)

====
